---------------------------- MODULE Spec2Model ----------------------------
(***************************************************************************)
(* Model of serve-test-app.py: a static file server on a fixed port that   *)
(* adds three CORS headers to every response, answers OPTIONS with a bare  *)
(* 200, tries to open a browser after binding, and exits 0 on an interrupt *)
(* and 1 on an OSError.                                                    *)
(*                                                                         *)
(* Each element of Inst is one run of the script (one OS process); the     *)
(* runs share the machine and therefore the TCP port.  Each element of     *)
(* Conn is one client connection to the port.  A request is a well-formed  *)
(* HTTP/1.x request (method, path, optional If-Modified-Since); a response *)
(* is the sequence of events the handler produces: the status line, the    *)
(* headers in the order they are buffered, the flush of the header block,  *)
(* the file-system calls, and the body write.                              *)
(***************************************************************************)
EXTENDS Integers, Sequences, FiniteSets, TLC

VARIABLES
    pc,         \* pc[p]: where run p is in main()
    sock,       \* sock[p]: "none" | "listening" | "closed"
    errno,      \* errno[p]: errno of the OSError being handled (0: none)
    exitCode,   \* exitCode[p]: -1 while the process runs, else its exit code
    out,        \* out[p]: the set of status lines the run has printed
    binds,      \* binds[p]: how many times run p has tried to bind the port
    bindErr,    \* bindErr[p]: why the bind failed: "none" | "EADDRINUSE" | "other"
    launch,     \* launch[p]: how webbrowser.open ended
    intrLog,    \* intrLog[p]: where each interrupt found the run: "launch" (in
                \* webbrowser.open), else its lifecycle state
    conn,       \* conn[c]: the client connection's state
    backlog,    \* connections queued on the listening socket, in order
    cur,        \* the connection the serving run is handling (0: none)
    wire        \* the request just handled and the response written for it

vars == <<pc, sock, errno, exitCode, out, binds, bindErr, launch,
          intrLog, conn, backlog, cur, wire>>

(***************************************************************************)
(* Bounds of the model                                                     *)
(***************************************************************************)
MaxConn == 2
MaxTime == 2

Inst == {1, 2}
Conn == 1 .. MaxConn
Platforms == {"darwin", "linux"}

(***************************************************************************)
(* Requests and the document root                                          *)
(***************************************************************************)
Methods == {"GET", "POST", "PUT", "OPTIONS"}
Names == {"test-app.html", "sub", "missing.html"}

\* A request path: the name under the document root, and whether the path
\* ends with "/".
Paths == [name : Names, slash : {FALSE}] \cup [name : {"sub"}, slash : {TRUE}]

\* ims = 0: the request has no If-Modified-Since header; ims = t > 0: it has
\* one, with time t (only send_head, so only a GET, reads it).
Requests ==
    {[method |-> m, name |-> q.name, slash |-> q.slash, ims |-> t] :
        m \in Methods, q \in Paths, t \in {0}}
    \cup
    {[method |-> m, name |-> q.name, slash |-> q.slash, ims |-> t] :
        m \in {"GET"}, q \in Paths, t \in 1 .. MaxTime}

NoReq == [method |-> "", name |-> "", slash |-> FALSE, ims |-> 0]

\* The working directory the server was started in.
DocRoot ==
    [n \in Names |->
        CASE n = "test-app.html" ->
               [kind |-> "file", bytes |-> <<60, 104, 49, 62>>, mtime |-> 2,
                ctype |-> "text/html"]
          [] n = "sub" ->
               [kind |-> "dir", bytes |-> <<>>, mtime |-> 1, ctype |-> ""]
          [] OTHER ->
               [kind |-> "missing", bytes |-> <<>>, mtime |-> 0, ctype |-> ""]]

(***************************************************************************)
(* Response events                                                         *)
(***************************************************************************)
StatusEv(code) ==
    [kind |-> "status", code |-> code, name |-> "", value |-> "", data |-> <<>>]
HeaderEv(n, v) ==
    [kind |-> "header", code |-> 0, name |-> n, value |-> v, data |-> <<>>]
LengthEv(len) ==
    [kind |-> "header", code |-> len, name |-> "Content-Length", value |-> "",
     data |-> <<>>]
FlushEv ==
    [kind |-> "flush", code |-> 0, name |-> "", value |-> "", data |-> <<>>]
FsEv(op, n) ==
    [kind |-> "fs", code |-> 0, name |-> op, value |-> n, data |-> <<>>]
BodyEv(bytes) ==
    [kind |-> "body", code |-> 0, name |-> "", value |-> "", data |-> bytes]

(***************************************************************************)
(* CORSHTTPRequestHandler                                                  *)
(***************************************************************************)
\* BaseHTTPRequestHandler.end_headers: the blank line, then flush_headers().
super_end_headers == <<FlushEv>>

\* A handler that flushes the header block before adding the CORS headers.
end_headers_after_flush ==
    super_end_headers \o
    << HeaderEv("Access-Control-Allow-Origin", "*"),
       HeaderEv("Access-Control-Allow-Methods", "GET, POST, OPTIONS"),
       HeaderEv("Access-Control-Allow-Headers", "Content-Type, Authorization") >>

end_headers ==
    << HeaderEv("Access-Control-Allow-Origin", "*"),
       HeaderEv("Access-Control-Allow-Methods", "GET, POST, OPTIONS"),
       HeaderEv("Access-Control-Allow-Headers", "Content-Type, Authorization") >>
    \o super_end_headers

\* BaseHTTPRequestHandler.send_response: status line, Server and Date headers.
send_response(code) ==
    << StatusEv(code), HeaderEv("Server", "SimpleHTTP"), HeaderEv("Date", "now") >>

\* The HTML page send_error writes for code.
ErrorPage(code) == <<code>>

\* BaseHTTPRequestHandler.send_error, which ends its header block through
\* self.end_headers(), the override.
send_error(code, method) ==
    send_response(code)
    \o << HeaderEv("Connection", "close"),
          HeaderEv("Content-Type", "text/html;charset=utf-8"),
          LengthEv(Len(ErrorPage(code))) >>
    \o end_headers
    \o (IF method # "HEAD" THEN <<BodyEv(ErrorPage(code))>> ELSE <<>>)

\* A preflight handler that answers 204 instead of 200.
do_OPTIONS_204 == send_response(204) \o end_headers

do_OPTIONS == send_response(200) \o end_headers

\* The listing list_directory builds for a directory.
Listing(n) == <<100, 105, 114>>

\* SimpleHTTPRequestHandler.send_head: [events, body]: the header block and
\* the bytes do_GET is to copy (has = FALSE: nothing to copy).
send_head(req) ==
    LET e == DocRoot[req.name]
        isdir == <<FsEv("isdir", req.name)>>
    IN  IF e.kind = "dir"
        THEN IF ~req.slash
             THEN [events |-> isdir \o send_response(301)
                              \o <<HeaderEv("Location", req.name), LengthEv(0)>>
                              \o end_headers,
                   has |-> FALSE, body |-> <<>>]
             ELSE [events |-> isdir \o <<FsEv("isfile", "index.html"),
                                         FsEv("listdir", req.name)>>
                              \o send_response(200)
                              \o <<HeaderEv("Content-type", "text/html; charset=utf-8"),
                                   LengthEv(Len(Listing(req.name)))>>
                              \o end_headers,
                   has |-> TRUE, body |-> Listing(req.name)]
        ELSE IF req.slash
             THEN [events |-> isdir \o send_error(404, req.method),
                   has |-> FALSE, body |-> <<>>]
        ELSE IF e.kind = "missing"
             THEN [events |-> isdir \o <<FsEv("open", req.name)>>
                              \o send_error(404, req.method),
                   has |-> FALSE, body |-> <<>>]
        ELSE IF req.ims > 0 /\ e.mtime <= req.ims
             THEN [events |-> isdir \o <<FsEv("open", req.name), FsEv("fstat", req.name)>>
                              \o send_response(304) \o end_headers,
                   has |-> FALSE, body |-> <<>>]
        ELSE [events |-> isdir \o <<FsEv("open", req.name), FsEv("fstat", req.name)>>
                         \o send_response(200)
                         \o <<HeaderEv("Content-type", e.ctype),
                              LengthEv(Len(e.bytes)),
                              HeaderEv("Last-Modified", "mtime")>>
                         \o end_headers,
              has |-> TRUE, body |-> e.bytes]

\* A copy loop that loses the last byte of the file.
copyfile_short(bytes) ==
    IF bytes = <<>> THEN <<>> ELSE SubSeq(bytes, 1, Len(bytes) - 1)

\* SimpleHTTPRequestHandler.copyfile: shutil.copyfileobj(source, wfile).
copyfile(bytes) == bytes

do_GET(req) ==
    LET h == send_head(req)
    IN  h.events \o (IF h.has THEN <<BodyEv(copyfile(h.body))>> ELSE <<>>)

\* BaseHTTPRequestHandler.handle_one_request: dispatch on "do_" + command;
\* a method the handler class has no do_ method for is answered 501.
handle_one_request(req) ==
    CASE req.method = "OPTIONS" -> do_OPTIONS
      [] req.method = "GET"     -> do_GET(req)
      [] OTHER                  -> send_error(501, req.method)

(***************************************************************************)
(* main(): the pieces of its control flow                                  *)
(***************************************************************************)
\* errno of "address already in use" on each platform.
EADDRINUSE(plat) ==
    CASE plat = "darwin" -> 48
      [] plat = "linux"  -> 98

\* A process that goes back to binding instead of exiting.
sys_exit_retry(code) == [pc |-> "bind", code |-> -1]

\* sys.exit(code): the process ends with that exit code.
sys_exit(code) == [pc |-> "exited", code |-> code]

\* An OSError handler whose generic branch exits 0.
OSErrorReport_exit0(e) ==
    IF e = 48
    THEN [msg |-> "port_in_use", code |-> 1]
    ELSE [msg |-> "start_error", code |-> 0]

\* The except OSError clause: the message printed and the exit code.
OSErrorReport(e) ==
    IF e = 48
    THEN [msg |-> "port_in_use", code |-> 1]
    ELSE [msg |-> "start_error", code |-> 1]

\* Leaving the block without closing the server.
with_exit_leak(s) == s

\* Leaving the with block (TCPServer.__exit__ calls server_close()).
with_exit(s) == IF s = "listening" THEN "closed" ELSE s

\* An except clause that catches Exception only.
except_Exception(exc) == exc # "KeyboardInterrupt"

\* The bare except: around webbrowser.open catches every exception.
bare_except(exc) == TRUE

\* What lines 37-41 print for each way webbrowser.open can end: the success
\* line after any return, the failure line in the except clause.
LaunchReport(outcome) ==
    IF outcome \in {"returned_true", "returned_false"}
    THEN "browser_opened"
    ELSE "browser_failed"

TryBody == {"bind", "banner", "launch", "enter_serve", "serve", "handle", "finish"}

NoWire == [c |-> 0, req |-> NoReq, events |-> <<>>]

Listener == {p \in Inst : sock[p] = "listening"}

\* The server's lifecycle state, read off the position in main().
Life(p) ==
    CASE pc[p] = "init" -> "STOPPED"
      [] pc[p] \in {"bind", "banner", "launch", "enter_serve"} -> "STARTING"
      [] pc[p] \in {"serve", "handle", "finish"} -> "SERVING"
      [] OTHER -> "STOPPED"

(***************************************************************************)
(* Initial state: no run has started, no client has connected.             *)
(***************************************************************************)
Init ==
    /\ pc = [p \in Inst |-> "init"]
    /\ sock = [p \in Inst |-> "none"]
    /\ errno = [p \in Inst |-> 0]
    /\ exitCode = [p \in Inst |-> -1]
    /\ out = [p \in Inst |-> {}]
    /\ binds = [p \in Inst |-> 0]
    /\ bindErr = [p \in Inst |-> "none"]
    /\ launch = [p \in Inst |-> "none"]
    /\ intrLog = [p \in Inst |-> <<>>]
    /\ conn = [c \in Conn |-> [st |-> "idle", sent |-> FALSE]]
    /\ backlog = <<>>
    /\ cur = 0
    /\ wire = NoWire

(***************************************************************************)
(* The runs                                                                *)
(***************************************************************************)
\* The script is started: main() is entered.  The runs are numbered in the
\* order in which they are started.
Start(p) ==
    /\ pc[p] = "init"
    /\ \A q \in Inst : q < p => pc[q] # "init"
    /\ pc' = [pc EXCEPT ![p] = "bind"]
    /\ UNCHANGED <<sock, errno, exitCode, out, binds, bindErr, launch,
                   intrLog, conn, backlog, cur, wire>>

\* socketserver.TCPServer(("", PORT), ...): bind and listen.  The port is
\* refused while another run listens on it (allow_reuse_address is off),
\* with the errno that the platform the script runs on gives "address
\* already in use"; otherwise the bind succeeds or fails with some other
\* OSError.
Bind(p) ==
    /\ pc[p] = "bind"
    /\ binds' = [binds EXCEPT ![p] = @ + 1]
    /\ IF Listener \ {p} # {}
       THEN /\ \E plat \in Platforms :
                 errno' = [errno EXCEPT ![p] = EADDRINUSE(plat)]
            /\ bindErr' = [bindErr EXCEPT ![p] = "EADDRINUSE"]
            /\ sock' = [sock EXCEPT ![p] = "closed"]
            /\ pc' = [pc EXCEPT ![p] = "except_oserror"]
       ELSE \E ok \in BOOLEAN :
              IF ok
              THEN /\ sock' = [sock EXCEPT ![p] = "listening"]
                   /\ pc' = [pc EXCEPT ![p] = "banner"]
                   /\ UNCHANGED <<errno, bindErr>>
              ELSE /\ errno' = [errno EXCEPT ![p] = 13]
                   /\ bindErr' = [bindErr EXCEPT ![p] = "other"]
                   /\ sock' = [sock EXCEPT ![p] = "closed"]
                   /\ pc' = [pc EXCEPT ![p] = "except_oserror"]
    /\ UNCHANGED <<exitCode, out, launch, intrLog, conn, backlog, cur, wire>>

\* The startup banner.
Banner(p) ==
    /\ pc[p] = "banner"
    /\ out' = [out EXCEPT ![p] = @ \cup {"starting"}]
    /\ pc' = [pc EXCEPT ![p] = "launch"]
    /\ UNCHANGED <<sock, errno, exitCode, binds, bindErr, launch,
                   intrLog, conn, backlog, cur, wire>>

\* webbrowser.open(...) returns True (a browser was started), returns False
\* (none could be started) or raises.
Launch(p) ==
    /\ pc[p] = "launch"
    /\ \E o \in {"returned_true", "returned_false", "raised"} :
         /\ launch' = [launch EXCEPT ![p] = o]
         /\ out' = [out EXCEPT ![p] = @ \cup {LaunchReport(o)}]
    /\ pc' = [pc EXCEPT ![p] = "enter_serve"]
    /\ UNCHANGED <<sock, errno, exitCode, binds, bindErr, intrLog,
                   conn, backlog, cur, wire>>

\* print(), then httpd.serve_forever().
EnterServe(p) ==
    /\ pc[p] = "enter_serve"
    /\ pc' = [pc EXCEPT ![p] = "serve"]
    /\ UNCHANGED <<sock, errno, exitCode, out, binds, bindErr, launch,
                   intrLog, conn, backlog, cur, wire>>

\* The connections of a listening socket that is closed are dropped; the
\* one whose response was already written has it.
Dropped(p) ==
    [c \in Conn |->
        IF conn[c].st = "accepted" /\ pc[p] = "finish"
        THEN [st |-> "done", sent |-> TRUE]
        ELSE IF conn[c].st \in {"queued", "accepted"}
        THEN [st |-> "reset", sent |-> FALSE]
        ELSE conn[c]]

\* Ctrl+C: KeyboardInterrupt is raised at the run's current position inside
\* main()'s try block.  Inside the inner try it meets the except clause of
\* the browser launch; anywhere else it leaves the with block and reaches
\* except KeyboardInterrupt.
Interrupt(p) ==
    /\ pc[p] \in TryBody
    /\ intrLog' = [intrLog EXCEPT ![p] =
                      Append(@, IF pc[p] = "launch" THEN "launch" ELSE Life(p))]
    /\ IF pc[p] = "launch" /\ bare_except("KeyboardInterrupt")
       THEN /\ launch' = [launch EXCEPT ![p] = "interrupted"]
            /\ out' = [out EXCEPT ![p] = @ \cup {LaunchReport("interrupted")}]
            /\ pc' = [pc EXCEPT ![p] = "enter_serve"]
            /\ UNCHANGED <<sock, conn, backlog, cur, wire>>
       ELSE /\ sock' = [sock EXCEPT ![p] = with_exit(@)]
            /\ pc' = [pc EXCEPT ![p] = "except_kbd"]
            /\ IF sock[p] = "listening" /\ sock'[p] # "listening"
               THEN /\ conn' = Dropped(p)
                    /\ backlog' = <<>>
                    /\ cur' = 0
                    /\ wire' = NoWire
               ELSE UNCHANGED <<conn, backlog, cur, wire>>
            /\ UNCHANGED <<launch, out>>
    /\ UNCHANGED <<errno, exitCode, binds, bindErr>>

\* except KeyboardInterrupt: print, sys.exit(0).
HandleKeyboardInterrupt(p) ==
    /\ pc[p] = "except_kbd"
    /\ out' = [out EXCEPT ![p] = @ \cup {"stopped_by_user"}]
    /\ pc' = [pc EXCEPT ![p] = sys_exit(0).pc]
    /\ exitCode' = [exitCode EXCEPT ![p] = sys_exit(0).code]
    /\ UNCHANGED <<sock, errno, binds, bindErr, launch, intrLog,
                   conn, backlog, cur, wire>>

\* except OSError as e: print one of the two messages, sys.exit(1).
HandleOSError(p) ==
    /\ pc[p] = "except_oserror"
    /\ out' = [out EXCEPT ![p] = @ \cup {OSErrorReport(errno[p]).msg}]
    /\ pc' = [pc EXCEPT ![p] = sys_exit(OSErrorReport(errno[p]).code).pc]
    /\ exitCode' = [exitCode EXCEPT ![p] = sys_exit(OSErrorReport(errno[p]).code).code]
    /\ UNCHANGED <<sock, errno, binds, bindErr, launch, intrLog,
                   conn, backlog, cur, wire>>

(***************************************************************************)
(* The clients and the serve loop                                          *)
(***************************************************************************)
\* A client connects to the port: the connection is queued on the listening
\* socket, or refused when no run listens.
Connect(c) ==
    /\ conn[c].st = "idle"
    /\ IF Listener # {}
       THEN /\ conn' = [conn EXCEPT ![c].st = "queued"]
            /\ backlog' = Append(backlog, c)
       ELSE /\ conn' = [conn EXCEPT ![c].st = "refused"]
            /\ UNCHANGED backlog
    /\ UNCHANGED <<pc, sock, errno, exitCode, out, binds, bindErr,
                   launch, intrLog, cur, wire>>

\* The client sends its request; it may do so late or never.
ClientSend(c) ==
    /\ conn[c].st \in {"queued", "accepted"}
    /\ ~conn[c].sent
    /\ conn' = [conn EXCEPT ![c].sent = TRUE]
    /\ UNCHANGED <<pc, sock, errno, exitCode, out, binds, bindErr,
                   launch, intrLog, backlog, cur, wire>>

\* serve_forever: the next queued connection is accepted and its handler is
\* run in the serving thread itself (TCPServer is not a threading server).
Accept(p) ==
    /\ pc[p] = "serve"
    /\ backlog # <<>>
    /\ cur' = Head(backlog)
    /\ backlog' = Tail(backlog)
    /\ conn' = [conn EXCEPT ![Head(backlog)].st = "accepted"]
    /\ pc' = [pc EXCEPT ![p] = "handle"]
    /\ UNCHANGED <<sock, errno, exitCode, out, binds, bindErr, launch,
                   intrLog, wire>>

\* The handler reads the request line (rfile.readline(), with no timeout: it
\* waits until the client has sent) and writes the response.
HandleRequest(p) ==
    /\ pc[p] = "handle"
    /\ conn[cur].sent
    /\ \E r \in Requests :
         wire' = [c |-> cur, req |-> r, events |-> handle_one_request(r)]
    /\ pc' = [pc EXCEPT ![p] = "finish"]
    /\ UNCHANGED <<sock, errno, exitCode, out, binds, bindErr, launch,
                   intrLog, conn, backlog, cur>>

\* The handler returns: the connection is shut down and the serve loop
\* waits for the next one.
Finish(p) ==
    /\ pc[p] = "finish"
    /\ conn' = [conn EXCEPT ![cur].st = "done"]
    /\ cur' = 0
    /\ wire' = NoWire
    /\ pc' = [pc EXCEPT ![p] = "serve"]
    /\ UNCHANGED <<sock, errno, exitCode, out, binds, bindErr, launch,
                   intrLog, backlog>>

Next ==
    \/ \E p \in Inst : Start(p)
    \/ \E p \in Inst : Bind(p)
    \/ \E p \in Inst : Banner(p)
    \/ \E p \in Inst : Launch(p)
    \/ \E p \in Inst : EnterServe(p)
    \/ \E p \in Inst : Interrupt(p)
    \/ \E p \in Inst : HandleKeyboardInterrupt(p)
    \/ \E p \in Inst : HandleOSError(p)
    \/ \E c \in Conn : Connect(c)
    \/ \E c \in Conn : ClientSend(c)
    \/ \E p \in Inst : Accept(p)
    \/ \E p \in Inst : HandleRequest(p)
    \/ \E p \in Inst : Finish(p)

Spec == Init /\ [][Next]_vars

\* The interpreter runs the process's own steps whenever they can run; the
\* operator (Start, Interrupt) and the clients (Connect, ClientSend) are
\* under no obligation to act.
ServerStep(p) ==
    \/ Bind(p) \/ Banner(p) \/ Launch(p) \/ EnterServe(p)
    \/ HandleKeyboardInterrupt(p) \/ HandleOSError(p)
    \/ Accept(p) \/ HandleRequest(p) \/ Finish(p)

FairSpec == Spec /\ \A p \in Inst : WF_vars(ServerStep(p))

TypeOK ==
    /\ pc \in [Inst -> TryBody \cup {"init", "except_kbd", "except_oserror", "exited"}]
    /\ sock \in [Inst -> {"none", "listening", "closed"}]
    /\ exitCode \in [Inst -> {-1, 0, 1}]
    /\ Cardinality(Listener) <= 1
    /\ cur \in 0 .. MaxConn

(***************************************************************************)
(* Vocabulary of the properties                                            *)
(***************************************************************************)
Responded == wire.c # 0

\* The status codes, the bodies and the places of the flush in a response.
Statuses(ev) == SelectSeq(ev, LAMBDA e : e.kind = "status")
Bodies(ev) == SelectSeq(ev, LAMBDA e : e.kind = "body")
FlushAt(ev) == {i \in DOMAIN ev : ev[i].kind = "flush"}
FsCalls(ev) == {i \in DOMAIN ev : ev[i].kind = "fs"}

CorsNames ==
    {"Access-Control-Allow-Origin", "Access-Control-Allow-Methods",
     "Access-Control-Allow-Headers"}

CorsValue(n) ==
    CASE n = "Access-Control-Allow-Origin"  -> "*"
      [] n = "Access-Control-Allow-Methods" -> "GET, POST, OPTIONS"
      [] n = "Access-Control-Allow-Headers" -> "Content-Type, Authorization"

\* The request path names a regular file of the document root.
PathIsFile(req) == DocRoot[req.name].kind = "file" /\ ~req.slash
PathIsMissing(req) == DocRoot[req.name].kind = "missing"

\* The request carries an If-Modified-Since time the file has not been
\* modified after.
NotModifiedSince(req) == req.ims > 0 /\ DocRoot[req.name].mtime <= req.ims

LastInterrupt(p) == intrLog[p][Len(intrLog[p])]
InterruptedServing(p) == intrLog[p] # <<>> /\ LastInterrupt(p) = "SERVING"
InterruptedInLaunch(p) == intrLog[p] # <<>> /\ Head(intrLog[p]) = "launch"

(***************************************************************************)
(* C1: every response, whatever the request method and the status, has     *)
(* one header block, and each of the three CORS headers is in it with      *)
(* exactly its specified value, added before the block is flushed.         *)
(***************************************************************************)
C1_CorsOnEveryResponse ==
    Responded =>
        LET ev == wire.events
        IN  /\ Cardinality(FlushAt(ev)) = 1
            /\ \A n \in CorsNames :
                 \E i \in DOMAIN ev :
                    /\ ev[i] = HeaderEv(n, CorsValue(n))
                    /\ \A j \in FlushAt(ev) : i < j
            /\ \A i \in DOMAIN ev :
                 ev[i].kind = "header" /\ ev[i].name \in CorsNames
                    => ev[i].value = CorsValue(ev[i].name)

\* A PUT, a method the handler has no do_ method for, was answered 501.
C1_Witness ==
    /\ Responded
    /\ wire.req.method = "PUT"
    /\ Statuses(wire.events) = <<StatusEv(501)>>

(***************************************************************************)
(* C2: an OPTIONS request, on an existing file, a directory or a missing   *)
(* path, is answered with status 200 and no body, and no file-system call  *)
(* is made while it is handled.                                            *)
(***************************************************************************)
C2_OptionsShortCircuit ==
    Responded /\ wire.req.method = "OPTIONS" =>
        /\ Statuses(wire.events) = <<StatusEv(200)>>
        /\ Bodies(wire.events) = <<>>
        /\ FsCalls(wire.events) = {}

C2_Witness ==
    /\ Responded
    /\ wire.req.method = "OPTIONS"
    /\ PathIsMissing(wire.req)
    /\ Statuses(wire.events) = <<StatusEv(200)>>

C4_PortInUseReported ==
    \A p \in Inst :
        bindErr[p] = "EADDRINUSE" /\ pc[p] = "exited" =>
            /\ "port_in_use" \in out[p]
            /\ "start_error" \notin out[p]

(***************************************************************************)
(* C5: after an interrupt delivered in the serve loop the listening socket *)
(* is closed (no connection stays or becomes attached to it), the run can  *)
(* only go on to exit, and its exit code is 0.                             *)
(***************************************************************************)
C5_InterruptStopsServer ==
    /\ \A p \in Inst :
         InterruptedServing(p) =>
            /\ sock[p] = "closed"
            /\ pc[p] \in {"except_kbd", "exited"}
            /\ pc[p] = "except_kbd" =>
                  exitCode[p] = -1 /\ ENABLED HandleKeyboardInterrupt(p)
            /\ pc[p] = "exited" => exitCode[p] = 0
    /\ \A c \in Conn : conn[c].st \in {"queued", "accepted"} => Listener # {}

\* A run was interrupted while serving, has exited, and a later connection
\* attempt was refused.
C5_Witness ==
    \E p \in Inst :
        /\ InterruptedServing(p)
        /\ pc[p] = "exited"
        /\ \E c \in Conn : conn[c].st = "refused"
        /\ \E c \in Conn : conn[c].st = "done"

(***************************************************************************)
(* C6: the browser launch is attempted only after a successful bind, and a *)
(* failed launch (no browser could be started, or the call raised) is      *)
(* reported as a failure, not as a success, and is not fatal.              *)
(***************************************************************************)
C6_LaunchFailureLogged ==
    \A p \in Inst :
        launch[p] # "none" =>
            /\ binds[p] = 1 /\ bindErr[p] = "none"
            /\ exitCode[p] # 1
            /\ launch[p] # "returned_true" =>
                  /\ "browser_failed" \in out[p]
                  /\ "browser_opened" \notin out[p]

(***************************************************************************)
(* C7: a run whose bind failed, for whatever reason, made one bind attempt *)
(* only, never listens, never launches the browser or serves, and exits    *)
(* with code 1.                                                            *)
(***************************************************************************)
C7_StartupFailureFatal ==
    \A p \in Inst :
        /\ binds[p] <= 1
        /\ bindErr[p] # "none" =>
              /\ pc[p] \in {"except_oserror", "exited"}
              /\ sock[p] # "listening"
              /\ launch[p] = "none"
              /\ pc[p] = "exited" => exitCode[p] = 1

\* One run exited after a bind failure of the port-in-use kind that took
\* the generic branch of the handler.
C7_Witness ==
    \E p \in Inst :
        /\ bindErr[p] = "EADDRINUSE"
        /\ "start_error" \in out[p]
        /\ pc[p] = "exited"
        /\ exitCode[p] = 1

(***************************************************************************)
(* C8 as stated: the lifecycle takes only the transitions STOPPED ->       *)
(* STARTING, STARTING -> SERVING, SERVING -> STOPPED and, on a bind        *)
(* failure only, STARTING -> STOPPED; the socket is not listening in a     *)
(* STOPPED state, and a server that has stopped stays STOPPED.             *)
(***************************************************************************)
LifeEdges ==
    {<<"STOPPED", "STARTING">>, <<"STARTING", "SERVING">>,
     <<"SERVING", "STOPPED">>, <<"STARTING", "STOPPED">>}

LifecycleStep(p) ==
    /\ Life(p) # Life(p)' => <<Life(p), Life(p)'>> \in LifeEdges
    /\ pc[p] # "init" /\ Life(p) = "STOPPED" => Life(p)' = "STOPPED"
    /\ Life(p)' = "STOPPED" => sock'[p] # "listening"

C8_Lifecycle_Original ==
    [][\A p \in Inst :
          /\ LifecycleStep(p)
          /\ Life(p) = "STARTING" /\ Life(p)' = "STOPPED" => bindErr'[p] # "none"]_vars

(***************************************************************************)
(* C8 amended: as stated, except that STARTING -> STOPPED is taken on a    *)
(* bind failure or on an interrupt delivered before the serve loop is      *)
(* entered.                                                                *)
(***************************************************************************)
C8_Lifecycle ==
    [][\A p \in Inst :
          /\ LifecycleStep(p)
          /\ Life(p) = "STARTING" /\ Life(p)' = "STOPPED" =>
                \/ bindErr'[p] # "none"
                \/ Len(intrLog'[p]) = Len(intrLog[p]) + 1]_vars

\* A run stopped by an interrupt during startup, after the bind: its socket
\* was listening and is closed.
C8_Witness ==
    \E p \in Inst :
        /\ intrLog[p] # <<>>
        /\ LastInterrupt(p) = "STARTING"
        /\ sock[p] = "closed"
        /\ pc[p] = "exited"

(***************************************************************************)
(* C9: no operation blocks indefinitely: a connection that was accepted is *)
(* eventually finished with, and a client that has sent its request is     *)
(* eventually served, however slow or silent another client is.            *)
(***************************************************************************)
C9_NoIndefiniteBlocking ==
    /\ \A c \in Conn :
         (conn[c].st = "accepted") ~> (conn[c].st \in {"done", "reset"})
    /\ \A c \in Conn :
         (conn[c].st = "queued" /\ conn[c].sent) ~> (conn[c].st \in {"done", "reset"})

(***************************************************************************)
(* C10: an interrupt delivered during the browser launch is absorbed as a  *)
(* launch failure: the run keeps its listening socket and goes on to the   *)
(* serve loop, and it exits, with code 0, only after a second interrupt.   *)
(***************************************************************************)
C10_InterruptDuringLaunch ==
    \A p \in Inst :
        InterruptedInLaunch(p) =>
            /\ launch[p] = "interrupted"
            /\ "browser_failed" \in out[p]
            /\ "browser_opened" \notin out[p]
            /\ Len(intrLog[p]) = 1 =>
                  /\ pc[p] \in {"enter_serve", "serve", "handle", "finish"}
                  /\ sock[p] = "listening"
                  /\ exitCode[p] = -1
            /\ pc[p] \in {"except_kbd", "exited"} => Len(intrLog[p]) = 2
            /\ exitCode[p] \in {-1, 0}

\* A run that absorbed an interrupt during the launch is serving a request.
C10_Witness ==
    \E p \in Inst :
        /\ intrLog[p] = <<"launch">>
        /\ pc[p] = "finish"

=============================================================================
